---------------------------- MODULE Spec2Model ----------------------------
(***************************************************************************)
(* A model of svsim's simulation-driver.cpp: the line-oriented command /   *)
(* message protocol between a host and a compiled simulation.              *)
(*                                                                         *)
(* Text is a sequence of one-character strings.  A command line is the     *)
(* buffer getline() returns: its characters up to and including "\n"; the  *)
(* position after the last character holds the terminating NUL.  C         *)
(* pointers into the line are 1-based indices into that sequence.          *)
(* Byte buffers are little-endian sequences of integers 0..255.            *)
(* A message body is a sequence of strings: the literal pieces of a format *)
(* string are kept whole, every interpolated character is an element of    *)
(* its own.                                                                *)
(***************************************************************************)
EXTENDS Integers, Sequences, FiniteSets, TLC

\* ------------------------------------------------------------------ bounds

\* Largest port bit width the codec specification enumerates.
MaxWidth == 9

\* Largest number of hex digits of a value text the codec specification scans.
MaxDigits == 3

\* ------------------------------------------------------- characters, bytes

NUL == "NUL"

INT_MAX == 2147483647

HexUpper == <<"0", "1", "2", "3", "4", "5", "6", "7", "8", "9", "A", "B", "C", "D", "E", "F">>

\* printf("%X", byte): the byte without zero padding
HexUnpadded(byte) ==
    IF byte < 16 THEN <<HexUpper[byte + 1]>>
    ELSE <<HexUpper[(byte \div 16) + 1], HexUpper[(byte % 16) + 1]>>

\* printf("%02X", byte)
Hex2(byte) == <<HexUpper[(byte \div 16) + 1], HexUpper[(byte % 16) + 1]>>

RECURSIVE HexDigits(_, _)
\* printf("%0<n>X", value): n upper-case digits, zero padded (value < 16^n)
HexDigits(value, n) ==
    IF n = 0 THEN <<>>
    ELSE Append(HexDigits(value \div 16, n - 1), HexUpper[(value % 16) + 1])

RECURSIVE Pow2(_)
Pow2(n) == IF n = 0 THEN 1 ELSE 2 * Pow2(n - 1)

RECURSIVE BitAnd(_, _)
\* a & b on non-negative integers
BitAnd(a, b) ==
    IF a = 0 \/ b = 0 THEN 0
    ELSE 2 * BitAnd(a \div 2, b \div 2) + (IF a % 2 = 1 /\ b % 2 = 1 THEN 1 ELSE 0)

RECURSIVE BytesOf(_, _)
\* The byteCount little-endian bytes of a non-negative value.
BytesOf(value, byteCount) ==
    IF byteCount = 0 THEN <<>>
    ELSE <<value % 256>> \o BytesOf(value \div 256, byteCount - 1)

\* (bitCount + 7) / 8
ByteCount(bitCount) == (bitCount + 7) \div 8

\* ------------------------------------------------------------ failWithError

\* failWithError(format, args...): the result of a routine that ended the
\* process with an error message; err is the formatted message body.
Failure(body) == [fail |-> TRUE, err |-> body]

\* ----------------------------------------------------------------- sendBits

\* switch (bitCount % 8) of sendBits
signBitMask(bitCount) ==
    CASE bitCount % 8 = 1 -> 1
      [] bitCount % 8 = 2 -> 2
      [] bitCount % 8 = 3 -> 4
      [] bitCount % 8 = 4 -> 8
      [] bitCount % 8 = 5 -> 16
      [] bitCount % 8 = 6 -> 32
      [] bitCount % 8 = 7 -> 64
      [] bitCount % 8 = 0 -> 128

RECURSIVE NegateFrom(_, _, _)
\* for (i = 0; i < byteCount; i++) { byte = (~byte & 0xFF) + carry; ... }
NegateFrom(bytes, i, carry) ==
    IF i > Len(bytes) THEN bytes
    ELSE LET byte == (255 - bytes[i]) + carry
         IN  NegateFrom([bytes EXCEPT ![i] = byte % 256], i + 1, byte \div 256)

RECURSIVE HexBytesFrom(_, _)
\* for (i = byteCount - 1; i >= 0; i--) writeMessageBody("%02X", mutableBytes[i])
HexBytesFrom(bytes, i) ==
    IF i = 0 THEN <<>> ELSE Hex2(bytes[i]) \o HexBytesFrom(bytes, i - 1)

\* The sign test of sendBits: mutableBytes[byteCount - 1] & signBitMask
SignBitSet(mutableBytes, bitCount) ==
    BitAnd(mutableBytes[ByteCount(bitCount)], signBitMask(bitCount)) # 0

\* The guard as it would be if only a width of zero were refused.
SendBitsRefusesZeroWidthOnly(bitCount, isSigned) == isSigned /\ bitCount <= 0

\* The guard of sendBits that refuses a signed value without magnitude bits.
SendBitsRefusesSigned(bitCount, isSigned) == isSigned /\ bitCount <= 1

\* The digits sendBits prints for the (negated, stripped) buffer.
SendBitsDigits(bytes) == HexBytesFrom(bytes, Len(bytes))

\* sendBits(mutableBytes, bitCount, isSigned): the failure, or the body of the
\* BITS message ("%08X " then the value text) and the value text alone.
sendBits(mutableBytes, bitCount, isSigned) ==
    LET Send(negative, byteCount) ==
            LET Strip(negated) ==
                    IF isSigned
                    THEN [negated EXCEPT ![byteCount] =
                             BitAnd(@, signBitMask(bitCount) - 1)]
                    ELSE negated
                Text(stripped) ==
                    (IF negative THEN <<"-">> ELSE <<>>) \o SendBitsDigits(stripped)
                Body(text) ==
                    [fail |-> FALSE,
                     body |-> HexDigits(bitCount, 8) \o <<" ">> \o text,
                     text |-> text]
            IN  Body(Text(Strip(IF negative THEN NegateFrom(mutableBytes, 1, 1)
                                ELSE mutableBytes)))
    IN  IF bitCount <= 0 THEN Failure(<<"Cannot send 0-bit value.">>)
        ELSE IF SendBitsRefusesSigned(bitCount, isSigned)
        THEN Failure(<<"Cannot send 1-bit signed value.">>)
        ELSE Send(isSigned /\ SignBitSet(mutableBytes, bitCount), ByteCount(bitCount))

\* -------------------------------------------------------------- scanHexBits

\* The character a pointer into the line buffer reads.
CharAt(line, i) == IF i >= 1 /\ i <= Len(line) THEN line[i] ELSE NUL

HexValue(c) ==
    CASE c = "0" -> 0 [] c = "1" -> 1 [] c = "2" -> 2 [] c = "3" -> 3
      [] c = "4" -> 4 [] c = "5" -> 5 [] c = "6" -> 6 [] c = "7" -> 7
      [] c = "8" -> 8 [] c = "9" -> 9
      [] c = "A" -> 10 [] c = "B" -> 11 [] c = "C" -> 12
      [] c = "D" -> 13 [] c = "E" -> 14 [] c = "F" -> 15
      [] c = "a" -> 10 [] c = "b" -> 11 [] c = "c" -> 12
      [] c = "d" -> 13 [] c = "e" -> 14 [] c = "f" -> 15
      [] OTHER -> -1

\* printf("%d", c): the character's code
CharCode(c) ==
    CASE c = "\n" -> 10 [] c = " " -> 32 [] c = "-" -> 45 [] c = "," -> 44
      [] c = "*" -> 42 [] c = "=" -> 61 [] c = "X" -> 88 [] c = "x" -> 120
      [] c = "s" -> 115 [] c = "u" -> 117 [] c = NUL -> 0
      [] HexValue(c) \in 0..9 -> 48 + HexValue(c)
      [] OTHER -> 63

\* scanHexCharacterReverse(&reverseScanCursor, description)
scanHexCharacterReverse(line, reverseScanCursor, description) ==
    LET Scan(value, digit) ==
            IF digit >= 0
            THEN [fail |-> FALSE, value |-> digit, cursor |-> reverseScanCursor - 1]
            ELSE Failure(<<"Encountered unexpected character '", value, "' when ",
                           description, ".">>)
    IN  Scan(CharAt(line, reverseScanCursor), HexValue(CharAt(line, reverseScanCursor)))

\* scanHexByteReverse(&reverseScanCursor, firstCharacterOfValue, description)
scanHexByteReverse(line, reverseScanCursor, firstCharacterOfValue, description) ==
    LET High(low, high) ==
            IF high.fail THEN high
            ELSE [fail |-> FALSE, value |-> (high.value * 16) + low.value,
                  cursor |-> high.cursor]
        Low(low) ==
            IF low.fail THEN low
            ELSE IF low.cursor < firstCharacterOfValue
            THEN [fail |-> FALSE, value |-> low.value, cursor |-> low.cursor]
            ELSE High(low, scanHexCharacterReverse(line, low.cursor, description))
    IN  Low(scanHexCharacterReverse(line, reverseScanCursor, description))

\* switch (valueBitCount % 8) of scanHexBits
highOrderByteMask(valueBitCount) ==
    CASE valueBitCount % 8 = 1 -> 254
      [] valueBitCount % 8 = 2 -> 252
      [] valueBitCount % 8 = 3 -> 248
      [] valueBitCount % 8 = 4 -> 240
      [] valueBitCount % 8 = 5 -> 224
      [] valueBitCount % 8 = 6 -> 192
      [] valueBitCount % 8 = 7 -> 128
      [] valueBitCount % 8 = 0 -> 0

\* The test after the scan loop of scanHexBits for hex characters left over.
ScanLeftover(reverseScanCursor, firstCharacterOfValue) ==
    reverseScanCursor > firstCharacterOfValue

RECURSIVE ScanLoop(_, _, _, _, _, _, _, _)
\* while (scannedByteCount < valueByteCount) { ... } of scanHexBits: the
\* failure, or the bytes scanned, the carry and the cursor.
ScanLoop(line, cursor, first, isNegative, carry, bytes, valueByteCount, description) ==
    LET Store(scannedCursor, scannedByte) ==
            IF isNegative /\ (scannedByte \div 256) \div 2 # 0
            THEN Failure(<<"Unexpected error in carry computation for ",
                           "negative value when ", description>>)
            ELSE IF scannedCursor < first
            THEN [fail |-> FALSE, bytes |-> Append(bytes, scannedByte % 256),
                  carry |-> IF isNegative THEN scannedByte \div 256 ELSE carry,
                  cursor |-> scannedCursor]
            ELSE ScanLoop(line, scannedCursor, first, isNegative,
                          IF isNegative THEN scannedByte \div 256 ELSE carry,
                          Append(bytes, scannedByte % 256), valueByteCount, description)
        Scanned(scanned) ==
            IF scanned.fail THEN scanned
            ELSE Store(scanned.cursor,
                       IF isNegative THEN (255 - scanned.value) + carry
                       ELSE scanned.value)
    IN  IF Len(bytes) >= valueByteCount
        THEN [fail |-> FALSE, bytes |-> bytes, carry |-> carry, cursor |-> cursor]
        ELSE Scanned(scanHexByteReverse(line, cursor, first, description))

\* bytes padded to byteCount with 0x00 whatever the sign
PadBytesWithZero(bytes, byteCount, pad) ==
    [i \in 1..byteCount |-> IF i <= Len(bytes) THEN bytes[i] ELSE 0]

\* bytes padded to byteCount with the given byte
PadBytes(bytes, byteCount, pad) ==
    [i \in 1..byteCount |-> IF i <= Len(bytes) THEN bytes[i] ELSE pad]

\* scanHexBits(&scanCursor, scanEnd, bitCount, description): the failure, or
\* the bytes returned and the new cursor (scanEnd).
scanHexBits(line, scanCursor, scanEnd, bitCount, description) ==
    LET Check(isNegative, bytes, mask, high) ==
            IF isNegative /\ high # mask
            THEN Failure(<<"Scanned negative value exceeded ", ToString(bitCount),
                           " bits when ", description, ".">>)
            ELSE IF ~isNegative /\ high # 0
            THEN Failure(<<"Scanned value exceeded ", ToString(bitCount),
                           " bits when ", description, ".">>)
            ELSE [fail |-> FALSE, bytes |-> bytes, cursor |-> scanEnd]
        Pad(isNegative, bytes, mask) ==
            Check(isNegative, bytes, mask, BitAnd(bytes[ByteCount(bitCount)], mask))
        Scanned(isNegative, first, valueBitCount, loop) ==
            IF loop.fail THEN loop
            ELSE IF ScanLeftover(loop.cursor, first)
            THEN Failure(<<"Scanned value exceeded ", ToString(ByteCount(bitCount)),
                           " bytes when ", description, ".">>)
            ELSE IF isNegative /\ loop.carry # 0
            THEN Failure(<<"Scanned negative value exceeded ",
                           ToString(ByteCount(bitCount)), " bytes when ",
                           description, ".">>)
            ELSE Pad(isNegative,
                     PadBytes(loop.bytes, ByteCount(bitCount),
                              IF isNegative THEN 255 ELSE 0),
                     highOrderByteMask(valueBitCount))
        Value(isNegative, first, valueBitCount) ==
            IF isNegative /\ scanEnd - 1 < first
            THEN Failure(<<"Unexpected end of negative value when ", description, ".">>)
            ELSE IF isNegative /\ bitCount <= 1
            THEN Failure(<<"Cannot scan 1-bit-wide negative value when ",
                           description, ".">>)
            ELSE Scanned(isNegative, first, valueBitCount,
                         ScanLoop(line, scanEnd - 1, first, isNegative, 1, <<>>,
                                  ByteCount(valueBitCount), description))
        Signed(isNegative) ==
            Value(isNegative,
                  IF isNegative THEN scanCursor + 1 ELSE scanCursor,
                  IF isNegative THEN bitCount - 1 ELSE bitCount)
    IN  IF scanEnd - 1 < scanCursor
        THEN Failure(<<"Scanned value is empty when ", description, ".">>)
        ELSE IF bitCount <= 0
        THEN Failure(<<"Cannot scan 0-bit-wide value when ", description, ".">>)
        ELSE Signed(CharAt(line, scanCursor) = "-")

\* ----------------------------------------------------------------- scanInt

IsSpace(c) == c \in {" ", "\t", "\n", "\f", "\r"}

RECURSIVE SkipSpace(_, _)
\* strtol: leading white space is skipped
SkipSpace(line, i) == IF IsSpace(CharAt(line, i)) THEN SkipSpace(line, i + 1) ELSE i

RECURSIVE StrtolDigits(_, _, _, _)
\* strtol: the digits of the subject sequence.  range is "int" while the
\* magnitude is at most INT_MAX, "min" when it is exactly 2^31 and "out" above.
StrtolDigits(line, i, acc, range) ==
    LET d == HexValue(CharAt(line, i))
    IN  IF d < 0 THEN [end |-> i, magnitude |-> acc, range |-> range]
        ELSE IF range # "int" THEN StrtolDigits(line, i + 1, acc, "out")
        ELSE IF acc <= (INT_MAX - d) \div 16
        THEN StrtolDigits(line, i + 1, (acc * 16) + d, "int")
        ELSE IF acc = 134217728 /\ d = 0
        THEN StrtolDigits(line, i + 1, acc, "min")
        ELSE StrtolDigits(line, i + 1, acc, "out")

\* strtol(*lineCursor, &scanEnd, 16)
strtol16(line, cursor) ==
    LET Converted(negative, afterPrefix, digits) ==
            IF digits.end = afterPrefix
            THEN [scanEnd |-> cursor, value |-> 0, inRange |-> TRUE]
            ELSE [scanEnd |-> digits.end,
                  value |-> IF digits.range = "int"
                            THEN (IF negative THEN 0 - digits.magnitude
                                  ELSE digits.magnitude)
                            ELSE (0 - INT_MAX) - 1,
                  inRange |-> digits.range = "int" \/ (digits.range = "min" /\ negative)]
        Digits(negative, afterPrefix) ==
            Converted(negative, afterPrefix, StrtolDigits(line, afterPrefix, 0, "int"))
        Prefix(negative, afterSign) ==
            Digits(negative,
                   IF /\ CharAt(line, afterSign) = "0"
                      /\ CharAt(line, afterSign + 1) \in {"x", "X"}
                      /\ HexValue(CharAt(line, afterSign + 2)) >= 0
                   THEN afterSign + 2 ELSE afterSign)
        Sign(afterSpace) ==
            Prefix(CharAt(line, afterSpace) = "-",
                   IF CharAt(line, afterSpace) \in {"-", "+"}
                   THEN afterSpace + 1 ELSE afterSpace)
    IN  Sign(SkipSpace(line, cursor))

\* scanInt(&lineCursor, description)
scanInt(line, lineCursor, description) ==
    LET Scanned(scanned) ==
            IF scanned.scanEnd = lineCursor
            THEN Failure(<<"Could not scan integer while ", description, ".">>)
            ELSE IF ~scanned.inRange
            THEN Failure(<<"Scanned out-of-bounds integer while ", description, ".">>)
            ELSE [fail |-> FALSE, value |-> scanned.value, cursor |-> scanned.scanEnd]
    IN  Scanned(strtol16(line, lineCursor))

RECURSIVE findNext(_, _, _)
\* findNext(string, character): the first position from string on that holds
\* character, or else the position of the terminating NUL
findNext(line, string, character) ==
    IF CharAt(line, string) # NUL /\ CharAt(line, string) # character
    THEN findNext(line, string + 1, character)
    ELSE string

\* -------------------------------------------------------------------- ports

\* The ports of the simulated module: port id -> bit width.  Port 3 is a
\* zero-width port; every other id is unknown to the registry.
PortBitWidth == (0 :> 1) @@ (1 :> 8) @@ (2 :> 12) @@ (3 :> 0)

\* port_setter(id, &bitWidth, &setter): nonzero status for an unknown id
port_setter(id) ==
    IF id \in DOMAIN PortBitWidth THEN [status |-> 0, bitWidth |-> PortBitWidth[id]]
    ELSE [status |-> 1, bitWidth |-> 0]

\* port_getter(id, &bitWidth, &getter)
port_getter(id) ==
    IF id \in DOMAIN PortBitWidth THEN [status |-> 0, bitWidth |-> PortBitWidth[id]]
    ELSE [status |-> 1, bitWidth |-> 0]

\* resolveSettablePort(id, &out, description)
resolveSettablePort(id, description) ==
    LET Resolved(out) ==
            IF out.status # 0
            THEN Failure(<<"Invalid port ID '", ToString(id), "'.">>)
            ELSE IF out.bitWidth <= 0
            THEN Failure(<<"Encountered port with invalid bit width when ",
                           description, ".">>)
            ELSE [fail |-> FALSE, bitWidth |-> out.bitWidth]
    IN  Resolved(port_setter(id))

\* resolveGettablePort(id, &out, description)
resolveGettablePort(id, description) ==
    LET Resolved(out) ==
            IF out.status # 0
            THEN Failure(<<"Invalid port ID '", ToString(id), "'.">>)
            ELSE IF out.bitWidth <= 0
            THEN Failure(<<"Encountered port with invalid bit width when ",
                           description, ".">>)
            ELSE [fail |-> FALSE, bitWidth |-> out.bitWidth]
    IN  Resolved(port_getter(id))

\* The buffers a port getter of the simulation may write: zero, one, the sign
\* bit alone, every bit of the width set, and every bit of every byte set.
GetterValues(bitWidth) ==
    LET byteCount == ByteCount(bitWidth)
    IN  { BytesOf(v, byteCount) :
            v \in {0, 1, Pow2(bitWidth - 1), Pow2(bitWidth) - 1, Pow2(8 * byteCount) - 1} }

\* -------------------------------------------------------------------- state

VARIABLES
    pc,                \* "main", "readCommand" (blocked in getline), "tickLoop", "exited"
    exitStatus,        \* "running", "EXIT_SUCCESS", "EXIT_FAILURE", "SIGNAL"
    fatalError,        \* whether failWithError has been entered
    messageStream,     \* "NULL" until main opens it, then "open"
    sent,              \* the codes of the messages written to the message stream
    lastBody,          \* the body of the last message written
    commandsRead,      \* the number of getline calls made
    line,              \* stringBuffer: the line the last getline returned
    accepted,          \* the codes of the commands handled to completion
    calls,             \* the engine calls made for the last command read
    receivedDone,
    traceInitialized,
    log,               \* sendLog's static FILE *log: whether open, and its offset
    simLog,            \* the bytes the simulation has printed to its stdout
    logReceived,       \* the data of the LOG messages written, one after the other
    transcript,        \* the commands read and messages written while the recorder is open
    executionScript,   \* the recorder file: whether open, and its text
    executionScriptMessageCount,
    executionScriptCommandCount,
    executionScriptLimit,
    tick,              \* the locals of a TICK command whose loop is running
    codec              \* the codec harness: the operation applied and its result

vars ==
    <<pc, exitStatus, fatalError, messageStream, sent, lastBody, commandsRead, line, accepted,
      calls, receivedDone, traceInitialized, log, simLog, logReceived, transcript,
      executionScript, executionScriptMessageCount, executionScriptCommandCount,
      executionScriptLimit, tick, codec>>

\* -------------------------------------------------------- sending messages

MESSAGE_READY == "r"
MESSAGE_ERROR == "e"
MESSAGE_ACK == "k"
MESSAGE_BITS == "b"
MESSAGE_LOG == "l"

COMMAND_DONE == "D"
COMMAND_LOG == "L"
COMMAND_GET_BITS == "G"
COMMAND_SET_BITS == "S"
COMMAND_RUN == "R"
COMMAND_TICK == "T"
COMMAND_TRACE == "W"

Message(code, body) == [code |-> code, body |-> body]

\* The entries of the transcript: a line getline delivered, a message written
Received(stringBuffer) == [direction |-> ">", text |-> stringBuffer]
Written(m) == [direction |-> "<", text |-> <<m.code, " ">> \o m.body \o <<"\n">>]

RECURSIVE LogDataOf(_)
\* The data of the LOG messages among msgs: the body after "%08lX "
LogDataOf(msgs) ==
    IF msgs = <<>> THEN <<>>
    ELSE (IF Head(msgs).code = "l"
          THEN SubSeq(Head(msgs).body, 10, Len(Head(msgs).body))
          ELSE <<>>) \o LogDataOf(Tail(msgs))

\* shouldLogMessageToExecutionScript()
shouldLogMessageToExecutionScript(script, messageCount, limit) ==
    script.open /\ (limit = -1 \/ messageCount < limit)

\* What writeMessage(code, body) appends to the execution script.
ScriptAfterMessage(script, messageCount, limit, m) ==
    IF shouldLogMessageToExecutionScript(script, messageCount, limit)
    THEN [script EXCEPT !.text = @ \o <<ToString(messageCount), "< ", m.code, " ">>
                                   \o m.body \o <<"\n">>]
    ELSE script

\* What readCommand appends to the execution script for the line read, and the
\* command count it leaves.
ScriptAfterCommand(script, commandCount, limit, stringBuffer) ==
    IF ~script.open THEN [script |-> script, commandCount |-> commandCount]
    ELSE LET logged == limit = -1 \/ commandCount <= limit
             count == IF logged THEN commandCount + 1 ELSE commandCount
             entry == IF logged
                      THEN <<ToString(commandCount), "> ">> \o stringBuffer
                      ELSE <<>>
             note == IF count = limit + 1
                     THEN <<"# Execution script limited to ", ToString(limit),
                            " commands (not counting implicit 'Done').\n",
                            ToString(count), "> D\n">>
                     ELSE <<>>
         IN  [script |-> [script EXCEPT !.text = @ \o entry \o note],
              commandCount |-> count]

\* What stringBuffer holds after getline delivered text: the text, or at end
\* of input (nothing delivered) what it held before, the previous line.  At
\* the first call the buffer is fresh from the allocator and its content is
\* indeterminate: empty or not.
BufferAfterGetline(text, previous, reads) ==
    IF text # <<>> THEN {text}
    ELSE IF reads = 0 THEN {<<>>, <<"?">>}
    ELSE {previous}

\* ------------------------------------------------------------ engine calls

Call(op, port, bytes, n) == [op |-> op, port |-> port, bytes |-> bytes, n |-> n]

SetCall(port, bytes) == Call("set", port, bytes, 0)
GetCall(port, bytes) == Call("get", port, bytes, 0)
RunCall(timesteps) == Call("run_simulation", -1, <<>>, timesteps)
TraceCall(op) == Call(op, -1, <<>>, 0)

\* ------------------------------------------------------- command effects

NoTick == [active |-> FALSE]

\* What one call of processCommand does besides reading the line: whether it
\* ended the process (failWithError), the messages it wrote, the engine
\* calls it made, and the values it leaves in the driver's globals.
Effect(exit, msgs, engineCalls) ==
    [exit |-> exit, msgs |-> msgs, calls |-> engineCalls, done |-> FALSE,
     trace |-> traceInitialized, log |-> log, printed |-> <<>>, tick |-> NoTick]

\* failWithError after the given engine calls
Fails(body, engineCalls) == Effect(TRUE, <<Message(MESSAGE_ERROR, body)>>, engineCalls)

\* sendAck()
sendAck == Message(MESSAGE_ACK, <<"ack">>)

\* sendReady()
sendReady == Message(MESSAGE_READY, <<"ready">>)

RECURSIVE CString(_)
\* printf("%s", data): the characters before the first NUL
CString(data) ==
    IF data = <<>> \/ Head(data) = NUL THEN <<>>
    ELSE <<Head(data)>> \o CString(Tail(data))

\* sendLog(): the message, and the position it leaves the log at.  The log
\* file holds what the simulation printed (stdout is flushed first).
sendLog ==
    LET currentOffset == IF log.open THEN log.offset ELSE 0
        endOffset == Len(simLog)
        readByteCount == endOffset - currentOffset
        data == SubSeq(simLog, currentOffset + 1, endOffset)
    IN  [Effect(FALSE,
                <<Message(MESSAGE_LOG, HexDigits(readByteCount, 8) \o <<" ">> \o CString(data))>>,
                <<>>)
         EXCEPT !.log = [open |-> TRUE, offset |-> endOffset]]

\* ------------------------------------------------------- reading commands

\* feof(stdin) in readCommand: stdin is /dev/null, which nothing has read
feof_stdin == FALSE

\* readCommand(&start, &end) on what getline delivers: nothing (end of
\* input), or the characters of a line.  A line without its "\n" is partial.
readCommand(stringBuffer) ==
    IF Len(stringBuffer) <= 0
    THEN (IF feof_stdin THEN Failure(<<"Unexpected end of input.">>)
          ELSE Failure(<<"Could not read next command.">>))
    ELSE IF stringBuffer[Len(stringBuffer)] = "\n"
    THEN [fail |-> FALSE, start |-> 1, end |-> Len(stringBuffer)]
    ELSE Failure(<<"Read partial line ">> \o stringBuffer)

\* ------------------------------------------------------ processing commands

\* case COMMAND_DONE as it would be if DONE were acknowledged
processDoneAcknowledged == {[Effect(FALSE, <<sendAck>>, <<>>) EXCEPT !.done = TRUE]}

\* case COMMAND_DONE
processDone == {[Effect(FALSE, <<>>, <<>>) EXCEPT !.done = TRUE]}

\* case COMMAND_LOG
processLog == {sendLog}

\* case COMMAND_SET_BITS as it would be if the setter were called with the
\* buffer before the value is validated
processSetBitsUnvalidated(ln, lineEnd) ==
    LET Set(id, data) ==
            IF data.fail THEN {Fails(data.err, <<SetCall(id.value, <<>>)>>)}
            ELSE {Effect(FALSE, <<sendAck>>, <<SetCall(id.value, data.bytes)>>)}
        Value(id, port) ==
            IF port.fail THEN {Fails(port.err, <<>>)}
            ELSE IF CharAt(ln, id.cursor) # " "
            THEN {Fails(<<"Expected space after port ID for SET_BITS command.">>, <<>>)}
            ELSE Set(id, scanHexBits(ln, id.cursor + 1, lineEnd, port.bitWidth,
                                     "parsing value for SET_BITS command"))
        Port(id) ==
            IF id.fail THEN {Fails(id.err, <<>>)}
            ELSE Value(id, resolveSettablePort(id.value,
                                               "resolving port for SET_BITS command"))
    IN  Port(scanInt(ln, 2, "parsing port ID for SET_BITS command"))

\* case COMMAND_SET_BITS
processSetBits(ln, lineEnd) ==
    LET Set(id, data) ==
            IF data.fail THEN {Fails(data.err, <<>>)}
            ELSE {Effect(FALSE, <<sendAck>>, <<SetCall(id.value, data.bytes)>>)}
        Value(id, port) ==
            IF port.fail THEN {Fails(port.err, <<>>)}
            ELSE IF CharAt(ln, id.cursor) # " "
            THEN {Fails(<<"Expected space after port ID for SET_BITS command.">>, <<>>)}
            ELSE Set(id, scanHexBits(ln, id.cursor + 1, lineEnd, port.bitWidth,
                                     "parsing value for SET_BITS command"))
        Port(id) ==
            IF id.fail THEN {Fails(id.err, <<>>)}
            ELSE Value(id, resolveSettablePort(id.value,
                                               "resolving port for SET_BITS command"))
    IN  Port(scanInt(ln, 2, "parsing port ID for SET_BITS command"))

\* (The back quotes of the GET_BITS error messages are written as apostrophes.)
\* The end of case COMMAND_GET_BITS, once the getter has written bytes
getBits(id, bytes, bitWidth, isSigned) ==
    LET Sent(bits) ==
            IF bits.fail THEN Fails(bits.err, <<GetCall(id, bytes)>>)
            ELSE Effect(FALSE, <<Message(MESSAGE_BITS, bits.body)>>,
                        <<GetCall(id, bytes)>>)
    IN  Sent(sendBits(bytes, bitWidth, isSigned))

\* case COMMAND_GET_BITS
processGetBits(ln) ==
    LET Get(isSigned, id, port) ==
            IF port.fail THEN {Fails(port.err, <<>>)}
            ELSE { getBits(id.value, bytes, port.bitWidth, isSigned) :
                     bytes \in GetterValues(port.bitWidth) }
        Port(isSigned, id) ==
            IF id.fail THEN {Fails(id.err, <<>>)}
            ELSE IF CharAt(ln, id.cursor) # "\n"
            THEN {Fails(<<"Unexpected data at end of GET_BITS command">>, <<>>)}
            ELSE Get(isSigned, id,
                     resolveGettablePort(id.value, "resolving port for GET_BITS command"))
    IN  IF CharAt(ln, 2) # " "
        THEN {Fails(<<"Expected space after 'GET_BITS' command.">>, <<>>)}
        ELSE IF CharAt(ln, 3) \notin {"s", "u"}
        THEN {Fails(<<"Expected 's' or 'u' argument to 'GET_BITS' command (",
                      CharAt(ln, 3), ").">>, <<>>)}
        ELSE IF CharAt(ln, 4) # " "
        THEN {Fails(<<"Expected space after 's' or 'u' argument to 'GET_BITS' command.">>,
                    <<>>)}
        ELSE Port(CharAt(ln, 3) = "s",
                  scanInt(ln, 5, "parsing port ID for GET_BITS command"))

\* case COMMAND_RUN; prints are the texts the simulation may print meanwhile
processRun(ln, prints) ==
    LET Run(time) ==
            IF time.fail THEN {Fails(time.err, <<>>)}
            ELSE IF CharAt(ln, time.cursor) # "\n"
            THEN {Fails(<<"Unexpected data at end of RUN command.">>, <<>>)}
            ELSE { [Effect(FALSE, <<sendAck>>, <<RunCall(time.value)>>)
                      EXCEPT !.printed = printed] : printed \in prints }
    IN  Run(scanInt(ln, 2, "parsing time for RUN command"))

\* case COMMAND_TRACE as it would be if traceInitialized were not tested
processTraceReinitializing(ln) ==
    IF CharAt(ln, 2) # " "
    THEN {Fails(<<"Expected space after ticking port ID for TICK command.">>, <<>>)}
    ELSE IF CharAt(ln, 4) # "\n"
    THEN {Fails(<<"Unexpected data at end of TRACE command.">>, <<>>)}
    ELSE LET argument == CharAt(ln, 3)
         IN  IF argument = "1"
             THEN {[Effect(FALSE, <<sendAck>>,
                           <<TraceCall("simulation_initializeTrace"),
                             TraceCall("simulation_enableTrace")>>)
                      EXCEPT !.trace = TRUE]}
             ELSE IF argument = "0"
             THEN {Effect(FALSE, <<sendAck>>, <<TraceCall("simulation_disableTrace")>>)}
             ELSE {Effect(FALSE, <<sendAck>>, <<>>)}

\* case COMMAND_TRACE
processTrace(ln) ==
    IF CharAt(ln, 2) # " "
    THEN {Fails(<<"Expected space after ticking port ID for TICK command.">>, <<>>)}
    ELSE IF CharAt(ln, 4) # "\n"
    THEN {Fails(<<"Unexpected data at end of TRACE command.">>, <<>>)}
    ELSE LET argument == CharAt(ln, 3)
         IN  IF argument = "1"
             THEN {[Effect(FALSE, <<sendAck>>,
                           (IF ~traceInitialized
                            THEN <<TraceCall("simulation_initializeTrace")>>
                            ELSE <<>>) \o <<TraceCall("simulation_enableTrace")>>)
                      EXCEPT !.trace = TRUE]}
             ELSE IF argument = "0"
             THEN {Effect(FALSE, <<sendAck>>, <<TraceCall("simulation_disableTrace")>>)}
             ELSE {Effect(FALSE, <<sendAck>>, <<>>)}

\* The optional sentinel of a TICK command, from the cursor after the max
\* cycle count: the failure, or the sentinel (if any) and the cursor.
scanSentinel(ln, lineCursor, lineEnd) ==
    LET Sentinel(id, port, value) ==
            IF value.fail THEN value
            ELSE [fail |-> FALSE, hasSentinel |-> TRUE, port |-> id.value,
                  bitWidth |-> port.bitWidth, value |-> value.bytes,
                  cursor |-> value.cursor]
        Value(id, port) ==
            IF port.fail THEN port
            ELSE IF CharAt(ln, id.cursor) # "="
            THEN Failure(<<"Expected equals sign after sentinel port ID for TICK command.">>)
            ELSE Sentinel(id, port,
                          scanHexBits(ln, id.cursor + 1, lineEnd, port.bitWidth,
                                      "parsing sentinel value for TICK command"))
        Port(id) ==
            IF id.fail THEN id
            ELSE Value(id, resolveGettablePort(id.value,
                                               "resolving sentinel port for TICK command"))
    IN  IF CharAt(ln, lineCursor) # " "
        THEN [fail |-> FALSE, hasSentinel |-> FALSE, port |-> -1, bitWidth |-> 0,
              value |-> <<>>, cursor |-> lineCursor]
        ELSE Port(scanInt(ln, lineCursor + 1, "parsing sentinel port ID for TICK command"))

\* The two counts of a TICK command, from the cursor after the dash: the
\* failure, or timestepsPerPhase, maxCycleCount and the cursor.
scanTickCounts(ln, lineCursor) ==
    LET Counts(timestepsPerPhase, maxCycleCount) ==
            IF maxCycleCount.fail THEN maxCycleCount
            ELSE IF maxCycleCount.value <= 0
            THEN Failure(<<"Max cycle count for TICK command should be greater than 0.">>)
            ELSE [fail |-> FALSE, timestepsPerPhase |-> timestepsPerPhase.value,
                  maxCycleCount |-> maxCycleCount.value,
                  cursor |-> maxCycleCount.cursor]
        Max(timestepsPerPhase) ==
            IF timestepsPerPhase.fail THEN timestepsPerPhase
            ELSE IF CharAt(ln, timestepsPerPhase.cursor) # "*"
            THEN Failure(<<"Expected asterisk after timesteps-per-phase for TICK command.">>)
            ELSE Counts(timestepsPerPhase,
                        scanInt(ln, timestepsPerPhase.cursor + 1,
                                "parsing max cycle count for TICK command."))
    IN  Max(scanInt(ln, lineCursor, "parsing timesteps-per-phase for TICK command"))

\* The two values of a TICK command, from the cursor after the space: the
\* failure, or inPhaseValue, outOfPhaseValue and the cursor after the dash.
scanTickValues(ln, lineCursor, bitWidth) ==
    LET Values(inPhaseValue, outOfPhaseValue) ==
            IF outOfPhaseValue.fail THEN outOfPhaseValue
            ELSE IF CharAt(ln, outOfPhaseValue.cursor) # "-"
            THEN Failure(<<"Expected dash after out-of-phase value for TICK command.">>)
            ELSE [fail |-> FALSE, inPhaseValue |-> inPhaseValue.bytes,
                  outOfPhaseValue |-> outOfPhaseValue.bytes,
                  cursor |-> outOfPhaseValue.cursor + 1]
        Out(inPhaseValue) ==
            IF inPhaseValue.fail THEN inPhaseValue
            ELSE IF CharAt(ln, inPhaseValue.cursor) # ","
            THEN Failure(<<"Expected comma after in-phase value for TICK command.">>)
            ELSE Values(inPhaseValue,
                        scanHexBits(ln, inPhaseValue.cursor + 1,
                                    findNext(ln, inPhaseValue.cursor + 1, "-"), bitWidth,
                                    "parsing out-of-phase value for TICK command"))
    IN  Out(scanHexBits(ln, lineCursor, findNext(ln, lineCursor, ","), bitWidth,
                        "parsing in-phase value for TICK command"))

\* case COMMAND_TICK up to the loop: the failure, or the locals the loop runs on
processTick(ln, lineEnd) ==
    LET Loop(id, values, counts, sentinel) ==
            IF sentinel.fail THEN {Fails(sentinel.err, <<>>)}
            ELSE IF CharAt(ln, sentinel.cursor) # "\n"
            THEN {Fails(<<"Unexpected data at end of TICK command: ">>
                        \o SubSeq(ln, sentinel.cursor, Len(ln)) \o <<".">>, <<>>)}
            ELSE {[Effect(FALSE, <<>>, <<>>) EXCEPT !.tick =
                    [active |-> TRUE, cycles |-> 0,
                     tickingPort |-> id.value,
                     inPhaseValue |-> values.inPhaseValue,
                     outOfPhaseValue |-> values.outOfPhaseValue,
                     timestepsPerPhase |-> counts.timestepsPerPhase,
                     maxCycleCount |-> counts.maxCycleCount,
                     hasSentinel |-> sentinel.hasSentinel,
                     sentinelPort |-> sentinel.port,
                     sentinelBitWidth |-> sentinel.bitWidth,
                     sentinelValue |-> sentinel.value]]}
        Sentinel(id, values, counts) ==
            IF counts.fail THEN {Fails(counts.err, <<>>)}
            ELSE Loop(id, values, counts, scanSentinel(ln, counts.cursor, lineEnd))
        Counts(id, values) ==
            IF values.fail THEN {Fails(values.err, <<>>)}
            ELSE Sentinel(id, values, scanTickCounts(ln, values.cursor))
        Values(id, port) ==
            IF port.fail THEN {Fails(port.err, <<>>)}
            ELSE IF CharAt(ln, id.cursor) # " "
            THEN {Fails(<<"Expected space after ticking port ID for TICK command.">>, <<>>)}
            ELSE Counts(id, scanTickValues(ln, id.cursor + 1, port.bitWidth))
        Port(id) ==
            IF id.fail THEN {Fails(id.err, <<>>)}
            ELSE Values(id, resolveSettablePort(id.value,
                                                "resolving ticking port for TICK command"))
    IN  Port(scanInt(ln, 2, "parsing ticking port ID for TICK command"))

\* processCommand() after readCommand returned the line ln
processCommand(ln, prints) ==
    LET commandCode == CharAt(ln, 1)
        lineEnd == Len(ln)
    IN  CASE commandCode = COMMAND_DONE -> processDone
          [] commandCode = COMMAND_LOG -> processLog
          [] commandCode = COMMAND_SET_BITS -> processSetBits(ln, lineEnd)
          [] commandCode = COMMAND_GET_BITS -> processGetBits(ln)
          [] commandCode = COMMAND_RUN -> processRun(ln, prints)
          [] commandCode = COMMAND_TICK -> processTick(ln, lineEnd)
          [] commandCode = COMMAND_TRACE -> processTrace(ln)
          [] OTHER -> {Fails(<<"Unknown opcode '", ToString(CharCode(commandCode)), "'.">>,
                              <<>>)}

\* ---------------------------------------------------------------- the host

\* Largest number of commands the host sends.
MaxCommands == 3

\* Largest max-cycle count of the TICK commands the host sends.
MaxCycles == 3

RECURSIVE HexText(_)
\* The host's rendering of a non-negative count: hex digits, no padding
HexText(n) == IF n < 16 THEN <<HexUpper[n + 1]>>
              ELSE Append(HexText(n \div 16), HexUpper[(n % 16) + 1])

\* What getline may deliver for the D, L, G, S, R and W commands and for no
\* command at all: well-formed and malformed lines, the end of input (the
\* empty text) and a partial line.
BasicInputs ==
    { <<"D", "\n">>,
      <<"D", "x", "\n">>,
      <<"L", "\n">>,
      <<"L", "x", "\n">>,
      <<"G", " ", "u", " ", "1", "\n">>,
      <<"G", " ", "s", " ", "1", "\n">>,
      <<"G", " ", "s", " ", "0", "\n">>,
      <<"G", " ", "u", " ", "0", "\n">>,
      <<"G", " ", "u", " ", "2", "\n">>,
      <<"G", "\n">>,
      <<"G", " ", "\n">>,
      <<"G", " ", "x", " ", "1", "\n">>,
      <<"G", " ", "s", " ", "1", "x", "\n">>,
      <<"G", " ", "u", " ", "9", "\n">>,
      <<"G", " ", "u", " ", "3", "\n">>,
      <<"S", " ", "1", " ", "F", "F", "\n">>,
      <<"S", " ", "1", " ", "1", "F", "F", "\n">>,
      <<"S", " ", "1", " ", "-", "1", "\n">>,
      <<"S", " ", "1", " ", "-", "8", "0", "\n">>,
      <<"S", " ", "0", " ", "1", "\n">>,
      <<"S", " ", "0", " ", "-", "1", "\n">>,
      <<"S", " ", "2", " ", "A", "B", "C", "\n">>,
      <<"S", "1", " ", "7", "\n">>,
      <<"S", " ", "1", " ", "7", "x", "\n">>,
      <<"S", " ", "1", "\n">>,
      <<"S", " ", "1", " ", "\n">>,
      <<"S", " ", "1", " ", "g", "\n">>,
      <<"S", " ", "9", " ", "1", "\n">>,
      <<"S", " ", "3", " ", "1", "\n">>,
      <<"S", " ", "1", " ", "1", "0", "0", "\n">>,
      <<"R", " ", "A", "\n">>,
      <<"R", " ", "-", "1", "\n">>,
      <<"R", "A", "\n">>,
      <<"R", "\n">>,
      <<"R", " ", "A", "x", "\n">>,
      <<"R", " ", "8", "0", "0", "0", "0", "0", "0", "0", "\n">>,
      <<"W", " ", "1", "\n">>,
      <<"W", " ", "0", "\n">>,
      <<"W", " ", "2", "\n">>,
      <<"W", "\n">>,
      <<"W", " ", "1", "x", "\n">>,
      <<"X", "\n">>,
      <<"\n">>,
      <<>>,
      <<"D">> }

\* TICK lines that are malformed, or whose values or counts are unusual.
TickErrorInputs ==
    { <<"T", " ", "0", " ", "1", ",", "0", "-", "A", "*", "0", "\n">>,
      <<"T", " ", "0", " ", "1", ",", "0", "-", "A", "*", "1", "x", "\n">>,
      <<"T", " ", "0", " ", "1", "\n">>,
      <<"T", " ", "0", " ", "1", ",", "0", "\n">>,
      <<"T", " ", "1", " ", "-", "1", ",", "1", "-", "A", "*", "1", "\n">>,
      <<"T", " ", "1", " ", "1", ",", "-", "1", "-", "A", "*", "1", "\n">>,
      <<"T", " ", "0", " ", "1", ",", "0", "-", "-", "A", "*", "1", "\n">>,
      <<"T", " ", "0", " ", "1", ",", "0", "-", "A", "*", "-", "1", "\n">>,
      <<"T", " ", "9", " ", "1", ",", "0", "-", "A", "*", "1", "\n">>,
      <<"T", " ", "0", " ", "1", ",", "0", "-", "A", "*", "1", " ", "9", "=", "1", "\n">>,
      <<"T", " ", "0", " ", "1", ",", "0", "-", "A", "*", "1", " ", "0", "=", "2", "\n">>,
      <<"T", " ", "0", " ", "1", ",", "0", "-", "A", "*", "1", " ", "0", "=", "1", "x", "\n">>,
      <<"T", " ", "0", " ", "2", ",", "0", "-", "A", "*", "1", "\n">>,
      <<"T", "0", " ", "1", ",", "0", "-", "A", "*", "1", "\n">>,
      <<"T", " ", "0", " ", "-", "1", ",", "0", "-", "A", "*", "1", "\n">>,
      <<"T", " ", "0", " ", "1", ",", "0", "-", "A", "*", "1", " ", "0", "=", "-", "1", "\n">> }

\* The tails of a TICK line after the max cycle count: no sentinel, a sentinel
\* on the 1-bit port 0 and one on the 8-bit port 1.
SentinelTails == {<<"\n">>, <<" ", "0", "=", "1", "\n">>, <<" ", "1", "=", "1", "\n">>}

\* T 0 1,0-A*<n>[ <sentinel>]: tick the 1-bit port 0, ten timesteps per phase
TickLine(n, tail) ==
    <<"T", " ", "0", " ", "1", ",", "0", "-", "A", "*">> \o HexText(n) \o tail

TickInputs == { TickLine(n, tail) : n \in 1..MaxCycles, tail \in SentinelTails }

HostInputs == BasicInputs \cup TickErrorInputs \cup TickInputs

\* ------------------------------------------------------------------ startup

\* What can go wrong in main before the message stream is open (lines
\* 805-831), and after.
EarlyFaults == {"aslr", "dup stdin", "fdopen commandStream", "dup stdout",
                "fdopen messageStream"}
LateFaults == {"freopen stdin", "freopen stdout", "execution script limit",
               "fopen execution script"}

StartupError(fault) ==
    CASE fault = "aslr" ->
            <<"Backend did not relaunch the executable with ASLR disabled as expected.">>
      [] fault = "dup stdin" -> <<"Failed to duplicate stdin.">>
      [] fault = "fdopen commandStream" -> <<"Failed to open command stream for writing.">>
      [] fault = "dup stdout" -> <<"Failed to duplicate stdout.">>
      [] fault = "fdopen messageStream" -> <<"Failed to open message stream for reading.">>
      [] fault = "freopen stdin" -> <<"Failed to redirect stdin to /dev/null.">>
      [] fault = "freopen stdout" -> <<"Failed to redirect stdout to ", "simulation-log.txt", ".">>
      [] fault = "execution script limit" -> <<"Invalid execution script limit '", "-1", "'.">>
      [] fault = "fopen execution script" -> <<"Failed to open execution script for writing.">>

\* The value of messageStream when main detects the fault.
StreamAt(fault) == IF fault \in EarlyFaults THEN "NULL" ELSE "open"

\* fprintf(messageStream, ...) of writeMessage: the message is written to an
\* open stream.  On a NULL stream the call is undefined: the process is
\* killed by a signal, or the call returns having written nothing.
WriteOutcomes(stream) == IF stream = "open" THEN {"written"} ELSE {"killed", "nothing"}

NoScript == [open |-> FALSE, limit |-> -1]

Init ==
    /\ pc = "main"
    /\ exitStatus = "running"
    /\ fatalError = FALSE
    /\ messageStream = "NULL"
    /\ sent = <<>>
    /\ lastBody = <<>>
    /\ commandsRead = 0
    /\ line = <<>>
    /\ accepted = <<>>
    /\ calls = <<>>
    /\ receivedDone = FALSE
    /\ traceInitialized = FALSE
    /\ log = [open |-> FALSE, offset |-> 0]
    /\ simLog = <<>>
    /\ logReceived = <<>>
    /\ transcript = <<>>
    /\ executionScript = [open |-> FALSE, text |-> <<>>]
    /\ executionScriptMessageCount = 0
    /\ executionScriptCommandCount = 1
    /\ executionScriptLimit = -1
    /\ tick = NoTick
    /\ codec = [op |-> "idle"]

\* main with a fault: failWithError, then exit(EXIT_FAILURE)
StartupFails(faults) ==
    /\ pc = "main"
    /\ \E fault \in faults : \E outcome \in WriteOutcomes(StreamAt(fault)) :
        /\ messageStream' = StreamAt(fault)
        /\ sent' = IF outcome = "written" THEN Append(sent, MESSAGE_ERROR) ELSE sent
        /\ lastBody' = IF outcome = "written" THEN StartupError(fault) ELSE lastBody
        /\ executionScriptMessageCount' =
              IF outcome = "killed" THEN executionScriptMessageCount
              ELSE executionScriptMessageCount + 1
        /\ exitStatus' = IF outcome = "killed" THEN "SIGNAL" ELSE "EXIT_FAILURE"
    /\ fatalError' = TRUE
    /\ pc' = "exited"
    /\ UNCHANGED <<commandsRead, line, accepted, calls, receivedDone, traceInitialized,
                   log, simLog, logReceived, transcript, executionScript,
                   executionScriptCommandCount, executionScriptLimit, tick, codec>>

\* main without a fault, up to the first getline of simulation_body: the
\* streams are open, the recorder is configured, READY is sent
Startup(scripts) ==
    /\ pc = "main"
    /\ \E script \in scripts :
        /\ executionScriptLimit' = script.limit
        /\ executionScript' =
              ScriptAfterMessage([open |-> script.open, text |-> <<>>],
                                 executionScriptMessageCount, script.limit, sendReady)
        /\ transcript' = IF script.open THEN <<Written(sendReady)>> ELSE transcript
    /\ messageStream' = "open"
    /\ sent' = Append(sent, sendReady.code)
    /\ lastBody' = sendReady.body
    /\ executionScriptMessageCount' = executionScriptMessageCount + 1
    /\ pc' = "readCommand"
    /\ UNCHANGED <<exitStatus, fatalError, commandsRead, line, accepted, calls,
                   receivedDone, traceInitialized, log, simLog, logReceived,
                   executionScriptCommandCount, tick, codec>>

\* ------------------------------------------------------------ command loop

\* while (true): the loop as it would be if receivedDone were not tested
LoopContinuesRegardless(done) == TRUE

\* while (!receivedDone) of simulation_body
LoopContinues(done) == ~done

\* One pass of the loop of simulation_body: processCommand() from its getline
\* to its return, to the process's exit, or to the start of the TICK loop.
\* inputs is what getline may deliver, prints what the simulation may print
\* while it runs.
ProcessCommand(inputs, prints) ==
    /\ pc = "readCommand"
    /\ commandsRead < MaxCommands
    /\ \E text \in inputs :
        \E recorded \in {ScriptAfterCommand(executionScript, executionScriptCommandCount,
                                            executionScriptLimit, stringBuffer) :
                            stringBuffer \in BufferAfterGetline(text, line, commandsRead)} :
        \E read \in {readCommand(text)} :
        \E eff \in (IF read.fail THEN {Fails(read.err, <<>>)}
                    ELSE processCommand(text, prints)) :
            /\ line' = text
            /\ commandsRead' = commandsRead + 1
            /\ calls' = eff.calls
            /\ sent' = sent \o [i \in 1..Len(eff.msgs) |-> eff.msgs[i].code]
            /\ lastBody' = IF eff.msgs = <<>> THEN lastBody
                           ELSE eff.msgs[Len(eff.msgs)].body
            /\ executionScript' =
                  IF eff.msgs = <<>> THEN recorded.script
                  ELSE ScriptAfterMessage(recorded.script, executionScriptMessageCount,
                                          executionScriptLimit, eff.msgs[1])
            /\ executionScriptMessageCount' =
                  executionScriptMessageCount + Len(eff.msgs)
            /\ executionScriptCommandCount' = recorded.commandCount
            /\ receivedDone' = (receivedDone \/ eff.done)
            /\ traceInitialized' = eff.trace
            /\ log' = eff.log
            /\ simLog' = simLog \o eff.printed
            /\ logReceived' = logReceived \o LogDataOf(eff.msgs)
            /\ transcript' =
                  IF executionScript.open
                  THEN transcript \o (IF text = <<>> THEN <<>> ELSE <<Received(text)>>)
                                  \o [i \in 1..Len(eff.msgs) |-> Written(eff.msgs[i])]
                  ELSE transcript
            /\ tick' = eff.tick
            /\ accepted' = IF ~eff.exit /\ ~eff.tick.active
                           THEN Append(accepted, CharAt(text, 1))
                           ELSE accepted
            /\ pc' = IF eff.exit THEN "exited"
                     ELSE IF eff.tick.active THEN "tickLoop"
                     ELSE IF LoopContinues(receivedDone \/ eff.done) THEN "readCommand"
                     ELSE "exited"
            /\ fatalError' = eff.exit
            /\ exitStatus' = IF eff.exit THEN "EXIT_FAILURE"
                             ELSE IF ~eff.tick.active /\ ~LoopContinues(receivedDone \/ eff.done)
                             THEN "EXIT_SUCCESS"
                             ELSE exitStatus
    /\ UNCHANGED <<messageStream, executionScriptLimit, codec>>

\* ---------------------------------------------------------------- TICK loop

\* while (cycles++ <= maxCycleCount): the condition off by one
TickLoopTestInclusive(cycles, maxCycleCount) == cycles <= maxCycleCount

\* The condition of while (cycles++ < maxCycleCount), on the value of cycles
\* before the increment
TickLoopTest(cycles, maxCycleCount) == cycles < maxCycleCount

\* cycles-- after the loop
TickReported(cycles) == cycles - 1

\* The third argument of memcmp in the sentinel check
SentinelCompareLength(bitWidth) == bitWidth

\* memcmp as it would be if every comparison found the buffers equal
memcmpAlwaysEqual(a, b, n) == {"equal"}

\* memcmp(a, b, n) on two buffers of Len(a) bytes each.  With n beyond the
\* buffers the bytes past them are read: when the buffers differ the result
\* is decided inside them; when they are equal it depends on what lies past
\* them, or the read faults.
memcmp(a, b, n) ==
    IF n <= Len(a)
    THEN {IF SubSeq(a, 1, n) = SubSeq(b, 1, n) THEN "equal" ELSE "differ"}
    ELSE IF a # b THEN {"differ"}
    ELSE {"equal", "differ", "fault"}

\* sendUintAsBits(value)
sendUintAsBits(value) == sendBits(BytesOf(value, 8), 64, FALSE)

\* The sentinel check of one pass: the buffer the getter wrote and the
\* outcome of memcmp, or no check without a sentinel.
SentinelChecks ==
    IF tick.hasSentinel
    THEN UNION { { [read |-> <<GetCall(tick.sentinelPort, v)>>, result |-> r] :
                     r \in memcmp(v, tick.sentinelValue,
                                  SentinelCompareLength(tick.sentinelBitWidth)) } :
                 v \in GetterValues(tick.sentinelBitWidth) }
    ELSE {[read |-> <<>>, result |-> "none"]}

\* The four engine calls of one cycle
DriveCycle ==
    <<SetCall(tick.tickingPort, tick.inPhaseValue), RunCall(tick.timestepsPerPhase),
      SetCall(tick.tickingPort, tick.outOfPhaseValue), RunCall(tick.timestepsPerPhase)>>

\* The end of case COMMAND_TICK after the loop was left with the given value
\* of cycles: the cycle count is sent and processCommand returns.
TickReturns(cycles, engineCalls) ==
    /\ \E bits \in {sendUintAsBits(TickReported(cycles))} :
        /\ lastBody' = bits.body
        /\ transcript' = IF executionScript.open
                         THEN Append(transcript, Written(Message(MESSAGE_BITS, bits.body)))
                         ELSE transcript
        /\ executionScript' =
              ScriptAfterMessage(executionScript, executionScriptMessageCount,
                                 executionScriptLimit, Message(MESSAGE_BITS, bits.body))
    /\ calls' = engineCalls
    /\ sent' = Append(sent, MESSAGE_BITS)
    /\ executionScriptMessageCount' = executionScriptMessageCount + 1
    /\ accepted' = Append(accepted, COMMAND_TICK)
    /\ tick' = NoTick
    /\ pc' = IF LoopContinues(receivedDone) THEN "readCommand" ELSE "exited"
    /\ UNCHANGED <<exitStatus, simLog>>

\* One pass of the TICK loop whose condition holds: the sentinel check, then
\* either the break or the cycle.
TickCycle(prints) ==
    /\ pc = "tickLoop"
    /\ TickLoopTest(tick.cycles, tick.maxCycleCount)
    /\ \E check \in SentinelChecks :
        CASE check.result = "fault" ->
                /\ calls' = calls \o check.read
                /\ pc' = "exited"
                /\ exitStatus' = "SIGNAL"
                /\ UNCHANGED <<sent, lastBody, executionScript, transcript,
                               executionScriptMessageCount, accepted, tick, simLog>>
          [] check.result = "equal" ->
                TickReturns(tick.cycles + 1, calls \o check.read)
          [] OTHER ->
                /\ calls' = calls \o check.read \o DriveCycle
                /\ tick' = [tick EXCEPT !.cycles = @ + 1]
                /\ \E printed \in prints : simLog' = simLog \o printed
                /\ UNCHANGED <<pc, exitStatus, sent, lastBody, executionScript,
                               transcript, executionScriptMessageCount, accepted>>
    /\ UNCHANGED <<fatalError, messageStream, commandsRead, line, receivedDone,
                   traceInitialized, log, logReceived, executionScriptCommandCount,
                   executionScriptLimit, codec>>

\* The pass of the TICK loop whose condition fails
TickExit ==
    /\ pc = "tickLoop"
    /\ ~TickLoopTest(tick.cycles, tick.maxCycleCount)
    /\ TickReturns(tick.cycles + 1, calls)
    /\ UNCHANGED <<fatalError, messageStream, commandsRead, line, receivedDone,
                   traceInitialized, log, logReceived, executionScriptCommandCount,
                   executionScriptLimit, codec>>

\* ------------------------------------------------------------ specification

\* The recorder is off and the simulation prints nothing.
Next ==
    \/ StartupFails(EarlyFaults \cup LateFaults)
    \/ Startup({NoScript})
    \/ ProcessCommand(HostInputs, {<<>>})
    \/ TickCycle({<<>>})
    \/ TickExit

Spec == Init /\ [][Next]_vars

\* ------------------------------------------------------------------ the log

\* What the simulation may print while it advances: nothing, a letter, a
\* newline, or a zero byte and a letter.
LogPrints == {<<>>, <<"a">>, <<"\n">>, <<NUL, "b">>}

\* The commands of a host that runs the simulation and fetches its log
LogInputs ==
    { <<"L", "\n">>, <<"R", " ", "A", "\n">>, TickLine(1, <<"\n">>), <<"D", "\n">> }

\* The recorder is off, the simulation prints while it advances.
LogNext ==
    \/ Startup({NoScript})
    \/ ProcessCommand(LogInputs, LogPrints)
    \/ TickCycle(LogPrints)
    \/ TickExit

LogSpec == Init /\ [][LogNext]_vars

\* ----------------------------------------------------------------- recorder

\* SVSIM_EXECUTION_SCRIPT set, SVSIM_EXECUTION_SCRIPT_LIMIT unset, 0 or 1
RecorderScripts == {[open |-> TRUE, limit |-> l] : l \in {-1, 0, 1}}

\* What getline delivers to a recorded run: commands, and end of input
RecorderInputs ==
    { <<"R", " ", "A", "\n">>,
      <<"L", "\n">>,
      TickLine(1, <<"\n">>),
      <<"D", "\n">>,
      <<>> }

RecorderNext ==
    \/ Startup(RecorderScripts)
    \/ ProcessCommand(RecorderInputs, {<<>>})
    \/ TickCycle({<<>>})
    \/ TickExit

RecorderSpec == Init /\ [][RecorderNext]_vars

\* ------------------------------------------------------------ codec harness

\* The two's-complement buffer of v at width bitCount: ceil(bitCount/8)
\* little-endian bytes of v modulo 256^byteCount.
TwosComplement(v, bitCount) ==
    BytesOf(IF v >= 0 THEN v ELSE Pow2(8 * ByteCount(bitCount)) + v, ByteCount(bitCount))

ValuesOf(bitCount, isSigned) ==
    IF isSigned THEN (0 - Pow2(bitCount - 1))..(Pow2(bitCount - 1) - 1)
    ELSE 0..(Pow2(bitCount) - 1)

DigitAlphabet == {"0", "1", "7", "8", "F", "f", "g"}

RECURSIVE TextsUpTo(_)
TextsUpTo(n) ==
    IF n = 0 THEN {<<>>}
    ELSE LET shorter == TextsUpTo(n - 1)
         IN  shorter \cup {Append(t, d) : t \in {s \in shorter : Len(s) = n - 1},
                                          d \in DigitAlphabet}

ValueTexts == {sign \o t : sign \in {<<>>, <<"-">>}, t \in TextsUpTo(MaxDigits)}

CodecInit == Init

\* Every variable but codec
cvars ==
    <<pc, exitStatus, fatalError, messageStream, sent, lastBody, commandsRead, line, accepted,
      calls, receivedDone, traceInitialized, log, simLog, logReceived, transcript,
      executionScript, executionScriptMessageCount, executionScriptCommandCount,
      executionScriptLimit, tick>>

Encode ==
    /\ codec.op = "idle"
    /\ \E bitCount \in 1..MaxWidth, isSigned \in BOOLEAN :
         \E v \in ValuesOf(bitCount, isSigned) :
            codec' = [op |-> "encode", bitCount |-> bitCount, isSigned |-> isSigned,
                      value |-> v, bytes |-> TwosComplement(v, bitCount),
                      out |-> sendBits(TwosComplement(v, bitCount), bitCount, isSigned)]
    /\ UNCHANGED cvars

DecodeEncoded ==
    /\ codec.op = "encode"
    /\ ~codec.out.fail
    /\ codec' = [codec EXCEPT !.op = "roundtrip",
                              !.out = scanHexBits(codec.out.text \o <<"\n">>, 1,
                                                  Len(codec.out.text) + 1,
                                                  codec.bitCount, "decoding")]
    /\ UNCHANGED cvars

Decode ==
    /\ codec.op = "idle"
    /\ \E bitCount \in 1..MaxWidth, text \in ValueTexts :
            codec' = [op |-> "decode", bitCount |-> bitCount, text |-> text,
                      out |-> scanHexBits(text \o <<"\n">>, 1, Len(text) + 1,
                                          bitCount, "decoding")]
    /\ UNCHANGED cvars

CodecNext == Encode \/ DecodeEncoded \/ Decode

CodecSpec == CodecInit /\ [][CodecNext]_vars


\* ------------------------------------------------------------------ claims

Last(seq) == seq[Len(seq)]

RECURSIVE CountOf(_, _)
\* The number of elements of seq that equal x
CountOf(seq, x) ==
    IF seq = <<>> THEN 0
    ELSE (IF Head(seq) = x THEN 1 ELSE 0) + CountOf(Tail(seq), x)

\* The response code the protocol fixes for a command code
ResponseCode(command) ==
    CASE command = COMMAND_LOG -> MESSAGE_LOG
      [] command = COMMAND_GET_BITS -> MESSAGE_BITS
      [] command = COMMAND_SET_BITS -> MESSAGE_ACK
      [] command = COMMAND_RUN -> MESSAGE_ACK
      [] command = COMMAND_TICK -> MESSAGE_BITS
      [] command = COMMAND_TRACE -> MESSAGE_ACK

RECURSIVE Responses(_)
\* The responses the protocol prescribes for a sequence of commands: none for
\* D, one for every other command, in order
Responses(commands) ==
    IF commands = <<>> THEN <<>>
    ELSE (IF Head(commands) = COMMAND_DONE THEN <<>>
          ELSE <<ResponseCode(Head(commands))>>) \o Responses(Tail(commands))

C2_NothingAfterDone ==
    [][receivedDone => (sent' = sent /\ commandsRead' = commandsRead /\ calls' = calls)]_vars

\* D was processed while the host could still send commands.
C2_Witness == receivedDone /\ pc = "exited" /\ commandsRead < MaxCommands

\* C3: whenever failWithError is entered, whatever the error and whenever it
\* is detected (startup included), the message stream ends with an e message,
\* it holds exactly one e message, and the process has exited with a nonzero
\* status.
C3_OneErrorMessageThenExit ==
    fatalError =>
        /\ pc = "exited"
        /\ exitStatus = "EXIT_FAILURE"
        /\ CountOf(sent, MESSAGE_ERROR) = 1
        /\ Last(sent) = MESSAGE_ERROR

\* C4: the body of an e message holds no newline character.
C4_ErrorBodyHasNoNewline ==
    (sent # <<>> /\ Last(sent) = MESSAGE_ERROR)
        => \A i \in DOMAIN lastBody : lastBody[i] # "\n"

\* C5: decoding, at the same width, the text sendBits emits for the
\* two's-complement buffer of an in-range value succeeds and returns that
\* buffer.
C5_RoundTrip ==
    codec.op = "roundtrip" => (~codec.out.fail /\ codec.out.bytes = codec.bytes)

UpperHexDigits == {HexUpper[i] : i \in DOMAIN HexUpper}

\* The digits of a value text: the text without its sign
Magnitude(text) == IF text # <<>> /\ Head(text) = "-" THEN Tail(text) ELSE text

\* C6 (as the specification states it): the value text of sendBits holds only
\* the characters - 0-9 A-F, its magnitude has no leading zero digit unless it
\* is the single digit 0, and the value zero is emitted as the single digit 0.
C6_NoLeadingZeros ==
    (codec.op = "encode" /\ ~codec.out.fail) =>
        /\ \A i \in DOMAIN codec.out.text : codec.out.text[i] \in UpperHexDigits \cup {"-"}
        /\ Magnitude(codec.out.text) # <<>>
        /\ Head(Magnitude(codec.out.text)) = "0" => Magnitude(codec.out.text) = <<"0">>
        /\ codec.value = 0 => codec.out.text = <<"0">>

\* C6 (amended): the value text of sendBits is an optional - followed by
\* exactly two digits 0-9 A-F for every byte of the width, leading zeros
\* included, and the value zero is emitted as that many digits 0 without -.
C6_TwoDigitsPerByte ==
    (codec.op = "encode" /\ ~codec.out.fail) =>
        /\ Len(Magnitude(codec.out.text)) = 2 * ByteCount(codec.bitCount)
        /\ \A i \in DOMAIN Magnitude(codec.out.text) :
              Magnitude(codec.out.text)[i] \in UpperHexDigits
        /\ codec.value = 0 =>
              codec.out.text = [i \in 1..(2 * ByteCount(codec.bitCount)) |-> "0"]

\* The value 5 of an 8-bit port was emitted as 05.
C6_Witness ==
    /\ codec.op = "encode"
    /\ codec.bitCount = 8
    /\ codec.value = 5
    /\ ~codec.out.fail
    /\ codec.out.text = <<"0", "5">>

RECURSIVE HexNumber(_)
\* The number a text of hex digits denotes
HexNumber(digits) ==
    IF digits = <<>> THEN 0
    ELSE (16 * HexNumber(SubSeq(digits, 1, Len(digits) - 1))) + HexValue(Last(digits))

IsHexText(text) == text # <<>> /\ \A i \in DOMAIN text : HexValue(text[i]) >= 0

\* C7: scanHexBits fails for every value text whose magnitude does not fit
\* the magnitude width: the width for a text without -, one bit less for a
\* text with -.
C7_OverflowDetected ==
    codec.op = "decode" =>
        ((/\ IsHexText(Magnitude(codec.text))
          /\ HexNumber(Magnitude(codec.text)) >=
                Pow2(IF Head(codec.text) = "-" THEN codec.bitCount - 1 ELSE codec.bitCount))
            => codec.out.fail)

\* G s on the 1-bit port 0
SignedGetOfWidth1 == <<"G", " ", "s", " ", "0", "\n">>

\* The lines that carry a negative value for the 1-bit port 0: as the value of
\* SET_BITS, as the in-phase value of TICK and as the sentinel value of TICK
NegativeValuesOfWidth1 ==
    { <<"S", " ", "0", " ", "-", "1", "\n">>,
      <<"T", " ", "0", " ", "-", "1", ",", "0", "-", "A", "*", "1", "\n">>,
      <<"T", " ", "0", " ", "1", ",", "0", "-", "A", "*", "1", " ", "0", "=", "-", "1", "\n">> }

\* C8: on a port of width 1 a signed GET_BITS ends in a fatal error and no b
\* message, and a command carrying a negative value for the port ends in a
\* fatal error before any engine call.
C8_Width1SignedFails ==
    /\ (commandsRead > 0 /\ line = SignedGetOfWidth1) =>
            /\ fatalError
            /\ Last(sent) = MESSAGE_ERROR
            /\ CountOf(sent, MESSAGE_BITS) = CountOf(accepted, COMMAND_GET_BITS)
                                             + CountOf(accepted, COMMAND_TICK)
            /\ lastBody = <<"Cannot send 1-bit signed value.">>
    /\ (commandsRead > 0 /\ line \in NegativeValuesOfWidth1) =>
            /\ fatalError
            /\ Last(sent) = MESSAGE_ERROR
            /\ Head(lastBody) = "Cannot scan 1-bit-wide negative value when "
            /\ calls = <<>>

\* The signed GET_BITS of the 1-bit port has ended the process.
C8_Witness ==
    /\ line = SignedGetOfWidth1
    /\ pc = "exited"
    /\ exitStatus = "EXIT_FAILURE"
    /\ calls # <<>>

RECURSIVE Repeat(_, _)
\* n copies of a sequence, one after the other
Repeat(seq, n) == IF n = 0 THEN <<>> ELSE seq \o Repeat(seq, n - 1)

\* The cycle of the lines TickLine builds: port 0 is set to 1, the engine
\* advances 0xA timesteps, port 0 is set to 0, the engine advances 0xA timesteps
CycleOfTickLine ==
    <<SetCall(0, <<1>>), RunCall(10), SetCall(0, <<0>>), RunCall(10)>>

\* C9: a TICK without sentinel and with max cycle count n makes the engine
\* calls of exactly n whole cycles (so 2n advances), in order, and then
\* answers with the 64-bit value n.
C9_TickRunsMaxCycles ==
    \A n \in 1..MaxCycles :
        (commandsRead > 0 /\ line = TickLine(n, <<"\n">>)) =>
            /\ ~fatalError
            /\ pc = "tickLoop" =>
                  (tick.cycles <= n /\ calls = Repeat(CycleOfTickLine, tick.cycles))
            /\ pc # "tickLoop" =>
                  /\ calls = Repeat(CycleOfTickLine, n)
                  /\ CountOf(calls, RunCall(10)) = 2 * n
                  /\ Last(accepted) = COMMAND_TICK
                  /\ Last(sent) = MESSAGE_BITS
                  /\ lastBody = HexDigits(64, 8) \o <<" ">> \o HexDigits(n, 16)

\* A TICK of two cycles without sentinel has been answered.
C9_Witness ==
    /\ line = TickLine(2, <<"\n">>)
    /\ pc = "readCommand"
    /\ Len(calls) = 8
    /\ lastBody = HexDigits(64, 8) \o <<" ">> \o HexDigits(2, 16)

\* C10: in a TICK with a sentinel, a check that reads the expected value
\* from the sentinel port ends the loop: no cycle is driven after it and the
\* command answers with the number of cycles driven before it.
C10_SentinelMatchStops ==
    /\ (tick.active /\ tick.hasSentinel) =>
            \A i \in DOMAIN calls :
                calls[i] # GetCall(tick.sentinelPort, tick.sentinelValue)
    /\ \A n \in 1..MaxCycles, tail \in SentinelTails \ {<<"\n">>} :
            (line = TickLine(n, tail) /\ pc = "readCommand") =>
                /\ Last(sent) = MESSAGE_BITS
                /\ lastBody = HexDigits(64, 8) \o <<" ">>
                              \o HexDigits(CountOf(calls, RunCall(10)) \div 2, 16)


\* C11: the data of all LOG responses written so far, one after the other,
\* is exactly the simulation log up to the position the last LOG left the
\* log cursor at: nothing duplicated, nothing skipped.
C11_LogIsContiguous == logReceived = SubSeq(simLog, 1, log.offset)

\* C12: in a LOG response the number of bytes after the count and its space
\* equals the count, whatever bytes the log holds.
C12_LogCountFramesBody ==
    (sent # <<>> /\ Last(sent) = MESSAGE_LOG)
        => Len(lastBody) - 9 = HexNumber(SubSeq(lastBody, 1, 8))


\* Lines whose port id or count follows the command code without a space
MissingSeparatorLines ==
    { <<"S", "1", " ", "7", "\n">>,
      <<"R", "A", "\n">>,
      <<"T", "0", " ", "1", ",", "0", "-", "A", "*", "1", "\n">> }

\* C13: a command whose port id or count follows the command code without
\* the space ends in a fatal error and makes no engine call.
C13_MissingSeparatorIsFatal ==
    (commandsRead > 0 /\ line \in MissingSeparatorLines) => (fatalError /\ calls = <<>>)

\* Lines with a character between the end of the command and the newline
TrailingDataLines ==
    { <<"D", "x", "\n">>,
      <<"L", "x", "\n">>,
      <<"G", " ", "s", " ", "1", "x", "\n">>,
      <<"S", " ", "1", " ", "7", "x", "\n">>,
      <<"R", " ", "A", "x", "\n">>,
      <<"T", " ", "0", " ", "1", ",", "0", "-", "A", "*", "1", "x", "\n">>,
      <<"T", " ", "0", " ", "1", ",", "0", "-", "A", "*", "1", " ", "0", "=", "1", "x", "\n">>,
      <<"W", " ", "1", "x", "\n">> }

\* C14: for every command code, a line with extra characters before its
\* newline ends in a fatal error.
C14_TrailingDataIsFatal ==
    (commandsRead > 0 /\ line \in TrailingDataLines) => fatalError

\* Lines with a negative timestep count or a max cycle count below one
NegativeCountLines ==
    { <<"R", " ", "-", "1", "\n">>,
      <<"T", " ", "0", " ", "1", ",", "0", "-", "-", "A", "*", "1", "\n">>,
      <<"T", " ", "0", " ", "1", ",", "0", "-", "A", "*", "-", "1", "\n">>,
      <<"T", " ", "0", " ", "1", ",", "0", "-", "A", "*", "0", "\n">> }

\* C15: a command with a negative timestep count or a max cycle count below
\* one ends in a fatal error and never calls the engine.
C15_NegativeCountIsFatal ==
    (commandsRead > 0 /\ line \in NegativeCountLines) => (fatalError /\ calls = <<>>)


\* The value a text denotes: its hex magnitude, negated after a -
ValueOfText(text) ==
    IF Head(text) = "-" THEN 0 - HexNumber(Magnitude(text)) ELSE HexNumber(Magnitude(text))

\* A value text without superfluous leading zeros whose magnitude is nonzero
\* and fits the magnitude width of bitCount
FitsWidth(text, bitCount) ==
    /\ IsHexText(Magnitude(text))
    /\ Head(Magnitude(text)) # "0"
    /\ HexNumber(Magnitude(text)) <
            Pow2(IF Head(text) = "-" THEN bitCount - 1 ELSE bitCount)

\* C20: for every width and every value text without superfluous leading
\* zeros whose magnitude is nonzero and fits the magnitude width, scanHexBits
\* succeeds and returns ceil(W/8) little-endian bytes: the two's complement
\* of the value, the bytes above the scanned ones 0x00 for a non-negative
\* and 0xFF for a negative value.
C20_DecodesTwosComplement ==
    (codec.op = "decode" /\ FitsWidth(codec.text, codec.bitCount)) =>
        /\ ~codec.out.fail
        /\ Len(codec.out.bytes) = ByteCount(codec.bitCount)
        /\ codec.out.bytes = TwosComplement(ValueOfText(codec.text), codec.bitCount)

\* -1 decoded at width 9: one scanned byte, one padded byte
C20_Witness ==
    /\ codec.op = "decode"
    /\ codec.bitCount = 9
    /\ codec.text = <<"-", "1">>
    /\ ~codec.out.fail
    /\ codec.out.bytes = <<255, 255>>


\* C18: the sentinel check of a TICK compares exactly ceil(W/8) bytes, W the
\* width of the sentinel port, so the comparison never reads past the end of
\* the two ceil(W/8)-byte buffers and never faults.
C18_SentinelComparesBufferLength ==
    /\ (tick.active /\ tick.hasSentinel) =>
            SentinelCompareLength(tick.sentinelBitWidth) = ByteCount(tick.sentinelBitWidth)
    /\ exitStatus # "SIGNAL"


\* The value text of a BITS body: what follows the eight width digits and
\* the space
ValueText(body) == SubSeq(body, 10, Len(body))

\* C19: the value in the b response to a G command fits the width the
\* response declares: a magnitude below 2^W for an unsigned read, at most
\* 2^(W-1) below zero and below 2^(W-1) above for a signed read.
C19_GetValueFitsWidth ==
    (/\ pc = "readCommand"
     /\ commandsRead > 0
     /\ CharAt(line, 1) = COMMAND_GET_BITS
     /\ Last(sent) = MESSAGE_BITS) =>
        LET width == HexNumber(SubSeq(lastBody, 1, 8))
            text == ValueText(lastBody)
        IN  /\ width = PortBitWidth[calls[1].port]
            /\ IsHexText(Magnitude(text))
            /\ HexNumber(Magnitude(text)) <
                    (IF CharAt(line, 3) = "s"
                     THEN Pow2(width - 1) + (IF Head(text) = "-" THEN 1 ELSE 0)
                     ELSE Pow2(width))


RECURSIVE ExpectedScript(_, _, _)
\* The recorder file for a sequence of events: each command prefixed with
\* its number and "> ", each message with its number and "< ".
ExpectedScript(events, commandNumber, messageNumber) ==
    IF events = <<>> THEN <<>>
    ELSE IF Head(events).direction = ">"
    THEN <<ToString(commandNumber), "> ">> \o Head(events).text
         \o ExpectedScript(Tail(events), commandNumber + 1, messageNumber)
    ELSE <<ToString(messageNumber), "< ">> \o Head(events).text
         \o ExpectedScript(Tail(events), commandNumber, messageNumber + 1)

\* C16: with the recorder enabled and no limit, the recorder file holds
\* exactly the commands received and the messages sent so far, in the order
\* they occurred, commands numbered from 1 and messages from 0.
C16_ScriptIsTranscript ==
    (executionScript.open /\ executionScriptLimit = -1) =>
        executionScript.text = ExpectedScript(transcript, 1, 0)

\* The position of the first occurrence of x in s, 0 if there is none
IndexOf(s, x) ==
    IF \E i \in DOMAIN s : s[i] = x
    THEN CHOOSE i \in DOMAIN s : s[i] = x /\ \A j \in 1..(i - 1) : s[j] # x
    ELSE 0

\* C17: with a recorder limit L the file holds at most L received commands,
\* at most one synthetic D command and one note line, the D before the note,
\* however many commands are received.
C17_LimitWritesOneDone ==
    (executionScript.open /\ executionScriptLimit >= 0) =>
        /\ CountOf(executionScript.text, "> ") <= executionScriptLimit
        /\ CountOf(executionScript.text, "> D\n") <= 1
        /\ CountOf(executionScript.text, "# Execution script limited to ") <= 1
        /\ IndexOf(executionScript.text, "# Execution script limited to ") > 0
              => /\ IndexOf(executionScript.text, "> D\n") > 0
                 /\ IndexOf(executionScript.text, "> D\n")
                        < IndexOf(executionScript.text, "# Execution script limited to ")


\* Value texts for the 8-bit port 1
PortValueTexts == {<<"1">>, <<"-", "1">>, <<"F", "F">>}

\* S 1 <value>
SetLine(value) == <<"S", " ", "1", " ">> \o value \o <<"\n">>

\* T 1 <in-phase>,<out-of-phase>-A*1
TickValueLine(inPhase, outOfPhase) ==
    <<"T", " ", "1", " ">> \o inPhase \o <<",">> \o outOfPhase
        \o <<"-", "A", "*", "1", "\n">>

\* The bytes S 1 <value> drives to port 1, or <<>> if S refuses the value
BytesSetBy(value) ==
    LET eff == CHOOSE e \in processSetBits(SetLine(value), Len(SetLine(value))) : TRUE
    IN  IF eff.exit THEN <<>> ELSE eff.calls[1].bytes

\* C21: a value text that S accepts for a port is accepted as the in-phase
\* and as the out-of-phase value of a T on that port, and T drives the bytes
\* S drives.
C21_TickValuesDecodeAsSet ==
    \A inPhase \in PortValueTexts, outOfPhase \in PortValueTexts :
        (/\ commandsRead > 0
         /\ line = TickValueLine(inPhase, outOfPhase)
         /\ BytesSetBy(inPhase) # <<>>
         /\ BytesSetBy(outOfPhase) # <<>>) =>
            /\ ~fatalError
            /\ tick.active =>
                    /\ tick.inPhaseValue = BytesSetBy(inPhase)
                    /\ tick.outOfPhaseValue = BytesSetBy(outOfPhase)


\* The calls of a sequence that are not reads of a port
RECURSIVE WithoutGets(_)
WithoutGets(engineCalls) ==
    IF engineCalls = <<>> THEN <<>>
    ELSE (IF Head(engineCalls).op = "get" THEN <<>> ELSE <<Head(engineCalls)>>)
         \o WithoutGets(Tail(engineCalls))

\* The sentinel port never read the value the sentinels of SentinelTails expect
SentinelNeverMatched ==
    \A i \in DOMAIN calls : calls[i].op = "get" => calls[i].bytes # <<1>>

C23_FailedCommandLeavesEngine ==
    (/\ commandsRead > 0
     /\ fatalError
     /\ CharAt(line, 1) \in {COMMAND_SET_BITS, COMMAND_TICK}) =>
        calls = <<>>

\* S 1 1FF, a value too wide for the 8-bit port 1, has ended in a fatal
\* error, and so has a T with max cycle count 0.
C23_Witness ==
    /\ fatalError
    /\ line \in { <<"S", " ", "1", " ", "1", "F", "F", "\n">>,
                  <<"T", " ", "0", " ", "1", ",", "0", "-", "A", "*", "0", "\n">> }
    /\ Last(sent) = MESSAGE_ERROR
    /\ calls = <<>>


TraceOn == <<"W", " ", "1", "\n">>
TraceOff == <<"W", " ", "0", "\n">>

\* C24: the W 1 read while the trace is not initialized initializes it and
\* then enables it; every later W 1 only enables it; W 0 disables it and
\* initializes nothing; the trace, once initialized, stays so and is not
\* initialized again by any command; each of these commands is answered
\* with one k ack.
C24_TraceInitializedOnce ==
    [][commandsRead' = commandsRead + 1 =>
        /\ traceInitialized => traceInitialized'
        /\ (\E i \in DOMAIN calls' : calls'[i].op = "simulation_initializeTrace")
              => (~traceInitialized /\ line' = TraceOn)
        /\ line' = TraceOn =>
              /\ calls' = (IF traceInitialized THEN <<>>
                           ELSE <<TraceCall("simulation_initializeTrace")>>)
                          \o <<TraceCall("simulation_enableTrace")>>
              /\ traceInitialized'
              /\ sent' = Append(sent, MESSAGE_ACK)
              /\ lastBody' = <<"ack">>
        /\ line' = TraceOff =>
              /\ calls' = <<TraceCall("simulation_disableTrace")>>
              /\ traceInitialized' = traceInitialized
              /\ sent' = Append(sent, MESSAGE_ACK)
              /\ lastBody' = <<"ack">>]_vars

\* W 1 has been answered for an already initialized trace: it only enabled it.
C24_Witness ==
    /\ line = TraceOn
    /\ commandsRead >= 2
    /\ traceInitialized
    /\ calls = <<TraceCall("simulation_enableTrace")>>
    /\ Last(sent) = MESSAGE_ACK


\* C25: a W command whose argument is neither 1 nor 0 ends in a fatal error
\* with an e message and is not acknowledged.
C25_BadTraceArgumentIsFatal ==
    (/\ commandsRead > 0
     /\ Len(line) = 4
     /\ CharAt(line, 1) = COMMAND_TRACE
     /\ CharAt(line, 2) = " "
     /\ CharAt(line, 3) \notin {"0", "1"}) =>
        /\ fatalError
        /\ Last(sent) = MESSAGE_ERROR

\* The commands other than D recorded in a recorder file, and the responses
\* recorded in it (the messages after READY, message 0)
RecordedCommands(text) ==
    {i \in DOMAIN text : text[i] = "> " /\ CharAt(text, i + 1) # COMMAND_DONE}

RecordedResponses(text) ==
    {i \in DOMAIN text : text[i] = "< " /\ text[i - 1] # "0"}

\* C26: with a recorder limit, once a command has been answered the recorder
\* file holds a response for every command other than D that it holds.
C26_RecordedCommandsHaveResponses ==
    (/\ executionScript.open
     /\ executionScriptLimit >= 0
     /\ pc # "tickLoop"
     /\ exitStatus # "SIGNAL") =>
        Cardinality(RecordedCommands(executionScript.text))
            <= Cardinality(RecordedResponses(executionScript.text))

=============================================================================
